---------------------------- MODULE Spec2Model ----------------------------
(***************************************************************************)
(* A model of parse_txnlog.py, the ZooKeeper transaction log dumper.       *)
(*                                                                         *)
(* The log file is a sequence of bytes (0..255); the cursor `pos` is the   *)
(* number of bytes consumed so far.  Every decoder is an operator that     *)
(* takes the file and a position and yields [ok, pos, val]: on success     *)
(* `val` is the decoded value, on failure it is the exception raised, and  *)
(* `pos` is where the cursor stands afterwards in both cases.              *)
(*                                                                         *)
(* The script is Python 2 (xrange, str arguments to struct.pack): integers *)
(* are unbounded, `/` on integers floors, dict lookups raise KeyError.     *)
(***************************************************************************)
EXTENDS Integers, Sequences, FiniteSets, TLC

VARIABLES
    src,         \* the description the input file was built from (never read by the program)
    log,         \* the bytes of the file opened at line 274
    pos,         \* the file object's cursor
    pc,          \* where __main__ stands
    log_header,  \* the LogFileHeader object, <<>> before it exists
    start,       \* <<>> for None, <<t>> for the number t
    txn,         \* the Txn object of the current iteration
    exc,         \* the exception caught at line 288
    out          \* the lines printed so far

vars == <<src, log, pos, pc, log_header, start, txn, exc, out>>

(***************************************************************************)
(* Bounds of the input families.                                           *)
(***************************************************************************)
MaxRecords == 3
MaxCut == 6

(***************************************************************************)
(* Opcodes (lines 34-53) and the two registries.                           *)
(***************************************************************************)
SESSIONCLOSE == -11
SESSIONCREATE == -10
ERROR == -1
NOTIFICATION == 0
CREATE == 1
DELETE == 2
EXISTS == 3
GETDATA == 4
SETDATA == 5
GETACL == 6
SETACL == 7
GETCHILDREN == 8
SYNC == 9
PING == 11
GETCHILDREN2 == 12
CHECK == 13
MULTI == 14
AUTH == 100
SETWATCHES == 101
SASL == 102

opcodes ==
    (SESSIONCLOSE :> "sessionclose") @@ (SESSIONCREATE :> "sessioncreate") @@
    (ERROR :> "error") @@ (NOTIFICATION :> "notification") @@
    (CREATE :> "create") @@ (DELETE :> "delete") @@ (EXISTS :> "exists") @@
    (GETDATA :> "getdata") @@ (SETDATA :> "setdata") @@ (GETACL :> "getacl") @@
    (SETACL :> "setacl") @@ (GETCHILDREN :> "getchildren") @@ (SYNC :> "sync") @@
    (PING :> "ping") @@ (GETCHILDREN2 :> "getchildren2") @@ (CHECK :> "check") @@
    (MULTI :> "multi") @@ (AUTH :> "auth") @@ (SETWATCHES :> "setwatches") @@
    (SASL :> "sasl")

errorcodes ==
    (0 :> "ok") @@ (-1 :> "systemerror") @@ (-2 :> "runtimeinconsistency") @@
    (-3 :> "datainconsistency") @@ (-4 :> "connectionloss") @@
    (-5 :> "marshallingerror") @@ (-6 :> "unimplemented") @@
    (-7 :> "operationtimeout") @@ (-8 :> "badarguments") @@
    (-100 :> "apierror") @@ (-101 :> "nonode") @@ (-102 :> "noauth") @@
    (-103 :> "badversion") @@ (-108 :> "nochildrenforephemerals") @@
    (-110 :> "nodeexists") @@ (-111 :> "notempty") @@
    (-112 :> "sessionexpired") @@ (-113 :> "invalidcallback") @@
    (-114 :> "invalidacl") @@ (-115 :> "authfailed") @@
    (-118 :> "sessionmoved")

(***************************************************************************)
(* Exceptions.                                                             *)
(***************************************************************************)
Exc(kind, arg) == [kind |-> kind, arg |-> arg]
NoExc == Exc("none", 0)
StructError == Exc("struct.error", 0)
EOS == Exc("EOS", 0)
UnknownType(type) == Exc("UnknownType", type)
KeyError(key) == Exc("KeyError", key)

Ok(p, v) == [ok |-> TRUE, pos |-> p, val |-> v]
Fail(p, e) == [ok |-> FALSE, pos |-> p, val |-> e]

(***************************************************************************)
(* Big-endian integers.  BEU is unsigned, BEI is two's complement.         *)
(***************************************************************************)
RECURSIVE Horner(_, _)
Horner(acc, bytes) ==
    IF bytes = <<>> THEN acc ELSE Horner(acc * 256 + Head(bytes), Tail(bytes))

BEU(bytes) == Horner(0, bytes)

BEI(bytes) ==
    IF Head(bytes) >= 128
    THEN Horner(Head(bytes) - 256, Tail(bytes))
    ELSE Horner(0, bytes)

(***************************************************************************)
(* file.read(n): at most n bytes from the cursor, all that is left when n  *)
(* is negative; never fails.                                               *)
(***************************************************************************)
Read(f, p, n) ==
    LET e == IF n < 0 \/ n > Len(f) - p THEN Len(f) ELSE p + n
    IN  [pos |-> e, val |-> SubSeq(f, p + 1, e)]

(* struct.Struct(fmt).unpack(log.read(size)): struct.error unless exactly  *)
(* `size` bytes came back.                                                 *)
Unpack(f, p, size) ==
    LET r == Read(f, p, size)
    IN  IF Len(r.val) = size THEN Ok(r.pos, r.val) ELSE Fail(r.pos, StructError)


(***************************************************************************)
(* Sequencing: the statement after a call runs only if the call returned;  *)
(* an exception leaves through every caller up to the try of line 280.     *)
(* This is IF r.ok THEN K(r) ELSE r, written so that r is evaluated once.  *)
(***************************************************************************)
Then(r, K(_)) == CHOOSE y \in { IF x.ok THEN K(x) ELSE x : x \in {r} } : TRUE

(***************************************************************************)
(* TxnEntry: the primitive readers shared by every payload class.          *)
(***************************************************************************)
ReadInt(f, p) ==
    Then(Unpack(f, p, 4), LAMBDA u : Ok(u.pos, BEI(u.val)))

(* struct.Struct(str(_len) + 's'): a negative length gives the format      *)
(* '-1s', which struct rejects with struct.error before anything is read.  *)
(* The value returned is the 1-tuple unpack yields.                        *)
ReadString(f, p) ==
    Then(ReadInt(f, p), LAMBDA n :
        IF n.val < 0 THEN Fail(n.pos, StructError)
        ELSE Then(Unpack(f, n.pos, n.val), LAMBDA u : Ok(u.pos, <<u.val>>)))

(* log.read(_len) with no check of what came back.                         *)
ReadDataAt(f, r) == Ok(r.pos, r.val)

ReadData(f, p) ==
    Then(ReadInt(f, p), LAMBDA n : ReadDataAt(f, Read(f, n.pos, n.val)))

(* Python: a tuple and an int are never equal.                             *)
TupleEqInt(t, i) == FALSE

(* _bool is the 1-tuple unpack returns, and it is that tuple which is      *)
(* compared with 0.                                                        *)
ReadBool(f, p) ==
    Then(Unpack(f, p, 1), LAMBDA u : Ok(u.pos, TupleEqInt(<<u.val[1]>>, 0)))

(* Acl.__init__ *)
ReadAcl(f, p) ==
    Then(ReadInt(f, p), LAMBDA perms :
    Then(ReadString(f, perms.pos), LAMBDA scheme :
    Then(ReadString(f, scheme.pos), LAMBDA id :
        Ok(id.pos, [perms |-> perms.val, scheme |-> scheme.val, id |-> id.val]))))

(* [self.readAcl(log) for i in xrange(count)]: empty when count <= 0.      *)
RECURSIVE AclLoop(_, _, _, _)
AclLoop(f, p, count, acc) ==
    IF count <= 0 THEN Ok(p, acc)
    ELSE Then(ReadAcl(f, p), LAMBDA a :
             AclLoop(f, a.pos, count - 1, Append(acc, a.val)))

ReadAcls(f, p) ==
    Then(ReadInt(f, p), LAMBDA count : AclLoop(f, count.pos, count.val, <<>>))

(***************************************************************************)
(* The payload classes.                                                    *)
(***************************************************************************)
TxnError(f, p) ==
    Then(ReadInt(f, p), LAMBDA err : Ok(err.pos, [kind |-> "Error", err |-> err.val]))

TxnCreate(f, p) ==
    Then(ReadString(f, p), LAMBDA path :
    Then(ReadData(f, path.pos), LAMBDA data :
    Then(ReadAcls(f, data.pos), LAMBDA acls :
    Then(ReadBool(f, acls.pos), LAMBDA ephemeral :
        Ok(ephemeral.pos, [kind |-> "Create", path |-> path.val, data |-> data.val,
                           acls |-> acls.val, ephemeral |-> ephemeral.val])))))

TxnDelete(f, p) ==
    Then(ReadString(f, p), LAMBDA path :
        Ok(path.pos, [kind |-> "Delete", path |-> path.val]))

TxnSetData(f, p) ==
    Then(ReadString(f, p), LAMBDA path :
    Then(ReadData(f, path.pos), LAMBDA data :
    Then(ReadInt(f, data.pos), LAMBDA version :
        Ok(version.pos, [kind |-> "SetData", path |-> path.val, data |-> data.val,
                         version |-> version.val]))))

TxnSetAcl(f, p) ==
    Then(ReadString(f, p), LAMBDA path :
    Then(ReadAcls(f, path.pos), LAMBDA acls :
    Then(ReadInt(f, acls.pos), LAMBDA version :
        Ok(version.pos, [kind |-> "SetAcl", path |-> path.val, acls |-> acls.val,
                         version |-> version.val]))))

TxnSessionCreate(f, p) ==
    Then(ReadInt(f, p), LAMBDA timeout :
        Ok(timeout.pos, [kind |-> "SessionCreate", timeout |-> timeout.val]))

TxnSessionClose(f, p) == Ok(p, [kind |-> "SessionClose"])

(***************************************************************************)
(* TxnHeader: '>Q I Q Q i', 32 bytes.  client_id, cxid and zxid are only   *)
(* ever printed in hex, so they are kept as their bytes; time is used in   *)
(* arithmetic and is a number.                                             *)
(***************************************************************************)
TxnHeader(f, p) ==
    Then(Unpack(f, p, 32), LAMBDA u :
        Ok(u.pos, [client_id |-> SubSeq(u.val, 1, 8),
                   cxid |-> SubSeq(u.val, 9, 12),
                   zxid |-> SubSeq(u.val, 13, 20),
                   time |-> BEU(SubSeq(u.val, 21, 28)),
                   type |-> BEI(SubSeq(u.val, 29, 32))]))

(* Dispatch with the SESSIONCLOSE branch left out.                         *)
DispatchNoSessionClose(f, p, type) ==
    IF type = CREATE THEN TxnCreate(f, p)
    ELSE IF type = DELETE THEN TxnDelete(f, p)
    ELSE IF type = SETDATA THEN TxnSetData(f, p)
    ELSE IF type = SETACL THEN TxnSetAcl(f, p)
    ELSE IF type = SESSIONCREATE THEN TxnSessionCreate(f, p)
    ELSE IF type = ERROR THEN TxnError(f, p)
    ELSE Fail(p, UnknownType(type))

(* Dispatch whose last branch is an else that builds an empty payload      *)
(* instead of raising.                                                     *)
DispatchNoRaise(f, p, type) ==
    IF type = CREATE THEN TxnCreate(f, p)
    ELSE IF type = DELETE THEN TxnDelete(f, p)
    ELSE IF type = SETDATA THEN TxnSetData(f, p)
    ELSE IF type = SETACL THEN TxnSetAcl(f, p)
    ELSE IF type = SESSIONCREATE THEN TxnSessionCreate(f, p)
    ELSE IF type = ERROR THEN TxnError(f, p)
    ELSE TxnSessionClose(f, p)

(* The if/elif chain of Txn.__init__, lines 96-111.                        *)
Dispatch(f, p, type) ==
    IF type = CREATE THEN TxnCreate(f, p)
    ELSE IF type = DELETE THEN TxnDelete(f, p)
    ELSE IF type = SETDATA THEN TxnSetData(f, p)
    ELSE IF type = SETACL THEN TxnSetAcl(f, p)
    ELSE IF type = SESSIONCREATE THEN TxnSessionCreate(f, p)
    ELSE IF type = SESSIONCLOSE THEN TxnSessionClose(f, p)
    ELSE IF type = ERROR THEN TxnError(f, p)
    ELSE Fail(p, UnknownType(type))

(* eor = log.read(1), line 113: a bare read, which returns '' at the end   *)
(* of the file, and nothing looks at what it returned.                     *)
ReadEor(f, p) == Ok(Read(f, p, 1).pos, <<>>)

(* Txn.__init__ with the test for a zero length made after the header is   *)
(* read.                                                                   *)
TxnLateEOS(f, p) ==
    Then(Unpack(f, p, 12), LAMBDA fr :
        Then(TxnHeader(f, fr.pos), LAMBDA h :
             IF BEI(SubSeq(fr.val, 9, 12)) = 0 THEN Fail(h.pos, EOS)
             ELSE Then(Dispatch(f, h.pos, h.val.type), LAMBDA e :
                  Then(ReadEor(f, e.pos), LAMBDA eor :
                      Ok(eor.pos, [crc |-> SubSeq(fr.val, 1, 8),
                                   txn_len |-> BEI(SubSeq(fr.val, 9, 12)),
                                   header |-> h.val,
                                   entry |-> e.val])))))

(* Txn.__init__ *)
Txn(f, p) ==
    Then(Unpack(f, p, 12), LAMBDA fr :
        IF BEI(SubSeq(fr.val, 9, 12)) = 0 THEN Fail(fr.pos, EOS)
        ELSE Then(TxnHeader(f, fr.pos), LAMBDA h :
             Then(Dispatch(f, h.pos, h.val.type), LAMBDA e :
             Then(ReadEor(f, e.pos), LAMBDA eor :
                 Ok(eor.pos, [crc |-> SubSeq(fr.val, 1, 8),
                              txn_len |-> BEI(SubSeq(fr.val, 9, 12)),
                              header |-> h.val,
                              entry |-> e.val])))))

(***************************************************************************)
(* LogFileHeader: '>i i q', 16 bytes; MAGIC is the hex of 'ZKLG' read as a *)
(* number.                                                                 *)
(***************************************************************************)
MAGIC == BEU(<<90, 75, 76, 71>>)

LogFileHeader(f, p) ==
    Then(Unpack(f, p, 16), LAMBDA u :
        Ok(u.pos, [magic |-> BEI(SubSeq(u.val, 1, 4)),
                   version |-> BEI(SubSeq(u.val, 5, 8)),
                   dbid |-> SubSeq(u.val, 9, 16)]))

(* isvalid testing the version field in place of the magic.                *)
isvalidByVersion(h) == h.version = 2

isvalid(h) == h.magic = MAGIC

(***************************************************************************)
(* Rendering.  str(txn)[33:] drops the 33 characters of the wall-clock     *)
(* time; what is left is the session id, zxid, cxid, the opcode name and   *)
(* the payload's own __str__.  TxnError.__str__ looks the code up in       *)
(* errorcodes and raises KeyError when it is missing.                      *)
(***************************************************************************)
(* EntryStr with errorcodes.get(err, 'unknown') in place of the lookup.    *)
EntryStrDefault(e) ==
    IF e.kind = "Error"
    THEN Ok(0, [kind |-> "Error",
                name |-> IF e.err \in DOMAIN errorcodes THEN errorcodes[e.err]
                         ELSE "unknown"])
    ELSE IF e.kind = "Create"
    THEN Ok(0, [kind |-> "Create", path |-> e.path, data |-> e.data,
                acls |-> Len(e.acls),
                ephemeral |-> IF e.ephemeral THEN 1 ELSE 0])
    ELSE IF e.kind = "SetAcl"
    THEN Ok(0, [kind |-> "SetAcl", path |-> e.path, acls |-> Len(e.acls),
                version |-> e.version])
    ELSE Ok(0, e)

EntryStr(e) ==
    IF e.kind = "Error"
    THEN IF e.err \in DOMAIN errorcodes
         THEN Ok(0, [kind |-> "Error", name |-> errorcodes[e.err]])
         ELSE Fail(0, KeyError(e.err))
    ELSE IF e.kind = "Create"
    THEN Ok(0, [kind |-> "Create", path |-> e.path, data |-> e.data,
                acls |-> Len(e.acls),
                ephemeral |-> IF e.ephemeral THEN 1 ELSE 0])
    ELSE IF e.kind = "SetAcl"
    THEN Ok(0, [kind |-> "SetAcl", path |-> e.path, acls |-> Len(e.acls),
                version |-> e.version])
    ELSE Ok(0, e)

op2type(type) == opcodes[type]

TxnStr(t) ==
    Then(EntryStr(t.entry), LAMBDA es :
        Ok(0, [sessionid |-> t.header.client_id,
               zxid |-> t.header.zxid,
               cxid |-> t.header.cxid,
               op |-> op2type(t.header.type),
               entry |-> es.val]))

(***************************************************************************)
(* The input files.  A file is described by `src`: the four magic bytes,   *)
(* a sequence of frames (a record built from a template, or the            *)
(* zero-length frame) and the number of bytes cut off its end.  The        *)
(* encoders below write what a log writer writes; the program only ever    *)
(* sees the resulting bytes.                                               *)
(***************************************************************************)
I32(v) ==
    LET hi == v \div 16777216
        lo == v % 16777216
    IN  <<IF hi < 0 THEN hi + 256 ELSE hi, lo \div 65536, (lo \div 256) % 256, lo % 256>>

U64(v) == <<0, 0, 0, 0>> \o I32(v)

Str(bytes) == I32(Len(bytes)) \o bytes

Path == <<47, 97>>
Blob == <<120>>
AclBytes == I32(31) \o Str(<<119>>) \o Str(<<97>>)

Tpl(name, type, body, wf) == [name |-> name, type |-> type, body |-> body, wf |-> wf]

ZeroT == Tpl("zero", 0, <<>>, FALSE)

WellFormedTemplates ==
    { Tpl("sessioncreate", SESSIONCREATE, I32(30000), TRUE),
      Tpl("sessionclose", SESSIONCLOSE, <<>>, TRUE),
      Tpl("create", CREATE, Str(Path) \o Str(Blob) \o I32(0) \o <<0>>, TRUE),
      Tpl("delete", DELETE, Str(Path), TRUE),
      Tpl("setdata", SETDATA, Str(Path) \o Str(Blob) \o I32(1), TRUE),
      Tpl("setacl", SETACL, Str(Path) \o I32(1) \o AclBytes \o I32(1), TRUE),
      Tpl("error", ERROR, I32(-101), TRUE) }

(* Records that decode no further than their own frame: an error code      *)
(* outside the registry, and opcodes without a payload class.              *)
OddTemplates ==
    { Tpl("error-999", ERROR, I32(-999), FALSE),
      Tpl("exists", EXISTS, Str(Path) \o <<0>>, FALSE) }

(* Records whose declared lengths and counts do not match their bytes;     *)
(* they only ever stand last in a file.                                    *)
LastTemplates ==
    { Tpl("create-acl", CREATE,
          Str(Path) \o Str(Blob) \o I32(1) \o AclBytes \o <<1>>, TRUE),
      Tpl("create-eph255", CREATE, Str(Path) \o Str(Blob) \o I32(0) \o <<255>>, TRUE),
      Tpl("ping", PING, <<>>, FALSE),
      Tpl("type99", 99, <<>>, FALSE),
      Tpl("delete-long", DELETE, I32(5) \o Path, FALSE),
      Tpl("delete-huge", DELETE, I32(2147483647) \o Path, FALSE),
      Tpl("delete-neg", DELETE, I32(-1) \o Path, FALSE),
      Tpl("setdata-long", SETDATA, Str(Path) \o I32(9) \o Blob \o I32(1), FALSE),
      Tpl("setdata-neg", SETDATA, Str(Path) \o I32(-1) \o Blob \o I32(1), FALSE),
      Tpl("create-manyacls", CREATE,
          Str(Path) \o Str(Blob) \o I32(2147483647) \o AclBytes \o <<0>>, FALSE),
      Tpl("create-negacls", CREATE, Str(Path) \o Str(Blob) \o I32(-1) \o <<0>>, FALSE) }

Frame(tpl, time) == [tpl |-> tpl, time |-> time]

(* Frame number i of a file: checksum, length, header, payload, delimiter. *)
EncFrame(fr, i) ==
    IF fr.tpl.name = "zero" THEN U64(0) \o I32(0)
    ELSE U64(0) \o I32(32 + Len(fr.tpl.body) + 1)
         \o U64(1) \o I32(i) \o U64(i) \o U64(fr.time) \o I32(fr.tpl.type)
         \o fr.tpl.body \o <<66>>

RECURSIVE EncFrames(_, _)
EncFrames(frames, i) ==
    IF i > Len(frames) THEN <<>>
    ELSE EncFrame(frames[i], i) \o EncFrames(frames, i + 1)

ZKLG == <<90, 75, 76, 71>>

EncFile(s) ==
    LET whole == s.magic \o I32(2) \o U64(0) \o EncFrames(s.frames, 1)
        keep == IF s.cut > Len(whole) THEN 0 ELSE Len(whole) - s.cut
    IN  SubSeq(whole, 1, keep)

File(magic, frames, cut) == [magic |-> magic, frames |-> frames, cut |-> cut]

SeqsUpTo(S, n) == UNION { [1..k -> S] : k \in 0..n }

(* Whole files over every ordinary frame; the record at place i is stamped *)
(* 1500 * i milliseconds.                                                  *)
OrderFiles ==
    { File(ZKLG, [i \in DOMAIN ts |-> Frame(ts[i], 1500 * i)], 0) :
        ts \in SeqsUpTo(WellFormedTemplates \cup OddTemplates \cup {ZeroT}, MaxRecords) }

(* Whole files of session records over a choice of timestamps.             *)
Times == {0, 1500, 2750}

TimeFiles ==
    { File(ZKLG, fs, 0) :
        fs \in SeqsUpTo({ Frame(t, tm) : t \in { x \in WellFormedTemplates :
                                                   x.name = "sessioncreate" },
                                          tm \in Times } \cup {Frame(ZeroT, 0)},
                        MaxRecords) }

(* Files that end in any record at all, with up to MaxCut bytes missing.   *)
EndingFiles ==
    { File(ZKLG, pre \o <<Frame(t, 1500 * (Len(pre) + 1))>>, c) :
        pre \in { <<>>, <<Frame(CHOOSE x \in WellFormedTemplates : x.name = "sessionclose",
                                1500)>> },
        t \in WellFormedTemplates \cup OddTemplates \cup LastTemplates,
        c \in 0..MaxCut }

(* Files with another magic, and files shorter than their header.          *)
BadMagics == { <<71, 76, 75, 90>>, <<90, 75, 76, 70>>, <<0, 0, 0, 0>>, <<255, 75, 76, 71>> }

HeaderFiles ==
    { File(m, fs, c) :
        m \in BadMagics \cup {ZKLG},
        fs \in { <<>>,
                 << Frame(CHOOSE x \in WellFormedTemplates : x.name = "sessioncreate", 1500),
                    Frame(ZeroT, 0) >> },
        c \in 0..MaxCut }

Files == OrderFiles \cup TimeFiles \cup EndingFiles \cup HeaderFiles

(***************************************************************************)
(* __main__                                                                *)
(***************************************************************************)
None == <<>>
NoTxn == [none |-> TRUE]

Init ==
    /\ src \in Files
    /\ log = EncFile(src)
    /\ pos = 0
    /\ pc = "open"
    /\ log_header = None
    /\ start = None
    /\ txn = NoTxn
    /\ exc = NoExc
    /\ out = <<>>

(* Lines 274-275.  A struct.error here is caught by nothing: the script    *)
(* dies with a traceback.                                                  *)
OpenLog ==
    /\ pc = "open"
    /\ LET h == LogFileHeader(log, pos)
       IN  /\ pos' = h.pos
           /\ log_header' = IF h.ok THEN h.val ELSE log_header
           /\ pc' = IF h.ok THEN "validate" ELSE "crashed"
    /\ UNCHANGED <<src, log, start, txn, exc, out>>

(* Lines 276-279.  parser.error prints the usage and exits with status 2.  *)
Validate ==
    /\ pc = "validate"
    /\ pc' = IF isvalid(log_header) THEN "loop" ELSE "exit"
    /\ UNCHANGED <<src, log, pos, log_header, start, txn, exc, out>>

(* Line 282, and line 288 when the constructor raises.                     *)
DecodeTxn ==
    /\ pc = "loop"
    /\ LET r == Txn(log, pos)
       IN  /\ pos' = r.pos
           /\ txn' = IF r.ok THEN r.val ELSE txn
           /\ exc' = IF r.ok THEN exc ELSE r.val
           /\ pc' = IF r.ok THEN "body" ELSE "except"
    /\ UNCHANGED <<src, log, log_header, start, out>>

(* `not start` holds of None and of 0.                                     *)
Falsy(s) == s = None \/ s[1] = 0

StartLine(t) == [kind |-> "start", sec |-> t \div 1000, ms |-> t % 1000]
TxnLine(diff, text) ==
    [kind |-> "txn", sec |-> diff \div 1000, ms |-> diff % 1000, text |-> text]
ExcLine(e) == [kind |-> "exc", exc |-> e]

(* Lines 283-287, and line 288 when str(txn) raises.  The argument of the  *)
(* second print is evaluated before anything of that line is written.      *)
PrintTxn ==
    /\ pc = "body"
    /\ LET first == Falsy(start)
           ref == IF first THEN txn.header.time ELSE start[1]
           banner == IF first THEN <<StartLine(ref)>> ELSE <<>>
           diff == txn.header.time - ref
           text == TxnStr(txn)
       IN  /\ start' = <<ref>>
           /\ out' = IF text.ok THEN out \o banner \o <<TxnLine(diff, text.val)>>
                     ELSE out \o banner
           /\ exc' = IF text.ok THEN exc ELSE text.val
           /\ pc' = IF text.ok THEN "loop" ELSE "except"
    /\ UNCHANGED <<src, log, pos, log_header, txn>>

(* An except clause that swallows a struct.error and goes round the loop   *)
(* again.                                                                  *)
HandleExceptionRetry ==
    /\ pc = "except"
    /\ out' = IF exc = StructError THEN out ELSE Append(out, ExcLine(exc))
    /\ pc' = IF exc = StructError THEN "loop" ELSE "close"
    /\ UNCHANGED <<src, log, pos, log_header, start, txn, exc>>

(* Line 289. *)
HandleException ==
    /\ pc = "except"
    /\ out' = Append(out, ExcLine(exc))
    /\ pc' = "close"
    /\ UNCHANGED <<src, log, pos, log_header, start, txn, exc>>

(* Line 291. *)
CloseLog ==
    /\ pc = "close"
    /\ pc' = "closed"
    /\ UNCHANGED <<src, log, pos, log_header, start, txn, exc, out>>

Next ==
    \/ OpenLog
    \/ Validate
    \/ DecodeTxn
    \/ PrintTxn
    \/ HandleException
    \/ CloseLog

Spec == Init /\ [][Next]_vars

(* The script is one sequential thread: it always takes its next step.     *)
FairSpec == Spec /\ WF_vars(Next)

(***************************************************************************)
(* What the properties below speak about.                                  *)
(***************************************************************************)
IsTxnLine(l) == l.kind = "txn"
TxnLines == SelectSeq(out, IsTxnLine)

Decodable == {CREATE, DELETE, SETDATA, SETACL, SESSIONCREATE, SESSIONCLOSE, ERROR}

(* The place of the first zero-length frame of the file, 0 when none.      *)
FirstZero ==
    IF \E i \in DOMAIN src.frames : src.frames[i].tpl.name = "zero"
    THEN CHOOSE i \in DOMAIN src.frames :
            /\ src.frames[i].tpl.name = "zero"
            /\ \A j \in 1..(i - 1) : src.frames[j].tpl.name # "zero"
    ELSE 0

(* A valid header, N >= 0 well-formed records, a zero-length frame.        *)
WellFormedInput ==
    /\ src.magic = ZKLG
    /\ src.cut = 0
    /\ FirstZero > 0
    /\ \A j \in 1..(FirstZero - 1) : src.frames[j].tpl.wf

(* The records of the file before the terminator, as (zxid, opcode name).  *)
Written == [i \in 1..(FirstZero - 1) |->
               [zxid |-> U64(i), op |-> src.frames[i].tpl.name]]
Printed == [i \in 1..Len(TxnLines) |->
               [zxid |-> TxnLines[i].text.zxid, op |-> TxnLines[i].text.op]]

(* The offset of the end of frame k in the file as written.                *)
FrameEnd(k) == 16 + Len(EncFrames(SubSeq(src.frames, 1, k), 1))

(* The length and opcode fields of the frame at the cursor.                *)
LenAtCursor == BEI(SubSeq(log, pos + 9, pos + 12))
TypeAtCursor == BEI(SubSeq(log, pos + 41, pos + 44))

(* A length prefix at p that declares more bytes than are left after it.   *)
Overlong(p) ==
    /\ Len(log) - p >= 4
    /\ BEI(SubSeq(log, p + 1, p + 4)) > Len(log) - (p + 4)

(* C1: on a file made of a valid header, N well-formed records and a       *)
(* zero-length frame, the records printed are at every moment a prefix of  *)
(* the N records written, in file order, and when the file is closed they  *)
(* are exactly those N and the run ended with the end-of-stream           *)
(* exception.                                                              *)
C1_ExactlyNInOrder ==
    WellFormedInput =>
        /\ Len(Printed) <= Len(Written)
        /\ \A i \in 1..Len(Printed) : Printed[i] = Written[i]
        /\ pc = "closed" =>
              /\ Printed = Written
              /\ exc = EOS
              /\ out[Len(out)] = ExcLine(EOS)

C1_Witness ==
    /\ WellFormedInput
    /\ pc = "closed"
    /\ Len(TxnLines) = 2
    /\ Printed[1].op # Printed[2].op

(* C2: a Create record is decoded with ephemeral true exactly when its     *)
(* ephemeral byte is zero.                                                 *)
C2_BoolIsByteZero ==
    (pc = "body" /\ txn.header.type = CREATE) =>
        LET body == src.frames[Len(TxnLines) + 1].tpl.body
        IN  txn.entry.ephemeral = (body[Len(body)] = 0)

(* C3: a frame whose length field is zero ends the iteration with EOS, the *)
(* cursor 12 bytes further and no Txn object made; and once EOS is caught  *)
(* nothing more is read, decoded or printed as a record.                   *)
C3_ZeroLengthIsEOS ==
    [][ /\ (pc = "loop" /\ Len(log) - pos >= 12 /\ LenAtCursor = 0) =>
              /\ pc' = "except"
              /\ exc' = EOS
              /\ pos' = pos + 12
              /\ txn' = txn
              /\ out' = out
        /\ exc = EOS =>
              /\ pc' \in {"close", "closed"}
              /\ pos' = pos
              /\ txn' = txn
              /\ TxnLines' = TxnLines ]_vars

C3_Witness ==
    /\ pc = "closed"
    /\ exc = EOS
    /\ pos < Len(log)
    /\ Len(TxnLines) >= 1

(* C4: a record whose opcode has no payload class raises UnknownType with  *)
(* that opcode, the cursor right after the 32-byte header, nothing         *)
(* printed; and once it is caught nothing more is read, decoded or printed *)
(* as a record.                                                            *)
C4_UnknownTypeIsFatal ==
    [][ /\ ( /\ pc = "loop"
             /\ Len(log) - pos >= 44
             /\ LenAtCursor # 0
             /\ TypeAtCursor \notin Decodable ) =>
              /\ pc' = "except"
              /\ exc' = UnknownType(TypeAtCursor)
              /\ pos' = pos + 44
              /\ txn' = txn
              /\ out' = out
        /\ exc.kind = "UnknownType" =>
              /\ pc' \in {"close", "closed"}
              /\ pos' = pos
              /\ txn' = txn
              /\ TxnLines' = TxnLines ]_vars

C4_Witness ==
    /\ pc = "closed"
    /\ exc = UnknownType(EXISTS)
    /\ pos < Len(log)
    /\ Len(TxnLines) >= 1

(* C5: when the magic read is not that of "ZKLG", the cursor stays at 16,  *)
(* no record is decoded and nothing is printed.                            *)
C5_BadMagicRejected ==
    (pc \notin {"open", "crashed"} /\ log_header.magic # 1514884167) =>
        /\ pc \in {"validate", "exit"}
        /\ pos = 16
        /\ txn = NoTxn
        /\ exc = NoExc
        /\ out = <<>>

C5_Witness ==
    /\ pc = "exit"
    /\ Len(log) > 16

(* C6: in the record at the cursor, the path read by readString and the    *)
(* blob read by readData fail when their length prefix declares more bytes *)
(* than are left.                                                          *)
C6_OverlongFails ==
    (pc = "loop" /\ Len(log) - pos >= 44 /\ LenAtCursor # 0) =>
        LET path == ReadString(log, pos + 44)
        IN  /\ (TypeAtCursor \in {CREATE, DELETE, SETDATA, SETACL} /\ Overlong(pos + 44))
                  => ~path.ok
            /\ (TypeAtCursor \in {CREATE, SETDATA} /\ path.ok /\ Overlong(path.pos))
                  => ~ReadData(log, path.pos).ok

(* C7: the reference is the timestamp of the first record, and the offset  *)
(* printed with record i is its timestamp minus that of the first record.  *)
C7_OffsetFromFirst ==
    /\ start # None => start[1] = src.frames[1].time
    /\ \A i \in 1..Len(TxnLines) :
          TxnLines[i].sec * 1000 + TxnLines[i].ms
              = src.frames[i].time - src.frames[1].time

(* C8: an Error record whose code is in the registry is printed with the   *)
(* registry's name (-101 as "nonode"); one whose code is not raises        *)
(* KeyError with that code, is not printed, and once that is caught        *)
(* nothing more is read, decoded or printed as a record.                   *)
C8_ErrorCodes ==
    [][ /\ (pc = "body" /\ txn.header.type = ERROR) =>
              IF txn.entry.err \in DOMAIN errorcodes
              THEN /\ pc' = "loop"
                   /\ Len(TxnLines') = Len(TxnLines) + 1
                   /\ out'[Len(out')].text.entry.name = errorcodes[txn.entry.err]
                   /\ txn.entry.err = -101 => out'[Len(out')].text.entry.name = "nonode"
              ELSE /\ pc' = "except"
                   /\ exc' = KeyError(txn.entry.err)
                   /\ TxnLines' = TxnLines
        /\ exc.kind = "KeyError" =>
              /\ pc' \in {"close", "closed"}
              /\ pos' = pos
              /\ txn' = txn
              /\ TxnLines' = TxnLines ]_vars

C8_Witness ==
    /\ pc = "closed"
    /\ exc = KeyError(-999)
    /\ pos < Len(log)
    /\ Len(TxnLines) >= 1
    /\ TxnLines[1].text.entry = [kind |-> "Error", name |-> "nonode"]

(* C9: a record is decoded only with its delimiter consumed: the cursor    *)
(* then stands at the end of the record's frame as written.                *)
C9_DelimiterConsumed ==
    pc = "body" => pos = FrameEnd(Len(TxnLines) + 1)

(* C10: every call of the record decoder returns with at least 12 bytes    *)
(* consumed or ends the loop, and from the loop the run always gets to     *)
(* the point where the file is closed.                                     *)
C10_Terminates ==
    /\ [][ pc = "loop" => \/ pc' = "body" /\ pos' >= pos + 12
                          \/ pc' = "except" ]_vars
    /\ (pc = "loop") ~> (pc = "closed")

C10_Witness ==
    /\ pc = "closed"
    /\ src.frames # <<>>
    /\ src.frames[Len(src.frames)].tpl.name
          \in {"create-manyacls", "setdata-neg", "delete-huge", "delete-neg"}

=============================================================================
